---- MODULE Spec2Model ----
(***************************************************************************)
(* Catalog harvesting for PTCG price prediction: the CardRush paginated    *)
(* crawl (download_cardrush.py, cardrushFetcher.py), the SimpleFetcher     *)
(* persistence (fetcher.py, init_db.py) and the Limitless card index       *)
(* (limitlessFetcher.py).                                                  *)
(*                                                                         *)
(* Tables are sequences of rows in rowid order.  A page of markup is       *)
(* represented by the records parse_products extracts from it.             *)
(***************************************************************************)
EXTENDS Integers, Sequences, FiniteSets, TLC

(***************************************************************************)
(* Bounds of the model.                                                    *)
(***************************************************************************)
NumIds == 6          \* product ids "1".."6" offered by the modelled site
MaxBatch == 3        \* longest page / batch of records
MaxPagesBound == 3   \* largest max_pages a crawl is started with
MaxSaves == 2        \* direct save calls per behaviour of the save specs
MaxSaveBatch == 2    \* longest batch handed to a direct save call
MaxSegments == 2     \* most rows a main loop is given
MaxSize == 2         \* largest size of a series of cards
MaxLen == 3          \* longest price text tried on _parse_price, the examples apart

(***************************************************************************)
(* Python values.                                                          *)
(***************************************************************************)
None == "<None>"                    \* None, also what dict.get gives for a missing key
Truthy(s) == s # None /\ s # ""     \* `not s` is false

NoneText == <<"<None>">>            \* None where a str of characters is expected
NoneVal == [tag |-> "None", v |-> 0]
ValueError == [tag |-> "ValueError", v |-> 0]
Float(n) == [tag |-> "float", v |-> n]

(***************************************************************************)
(* _parse_price: re.search(r"([\d,]+)") then float(run.replace(",", "")).  *)
(* A price text is a sequence of one-character strings.                    *)
(***************************************************************************)
IsDigit(c) == c \in {"0", "1", "2", "3", "4", "5", "6", "7", "8", "9"}
DigitValue(c) == CHOOSE n \in 0..9 : ToString(n) = c
InRunClass(c) == IsDigit(c) \/ c = ","

RECURSIVE RunStart(_, _)
RunStart(s, i) ==
    IF i > Len(s) THEN 0
    ELSE IF InRunClass(s[i]) THEN i
    ELSE RunStart(s, i + 1)

RECURSIVE RunEnd(_, _)
RunEnd(s, i) ==
    IF i < Len(s) /\ InRunClass(s[i + 1]) THEN RunEnd(s, i + 1) ELSE i

RemoveCommas(s) == SelectSeq(s, LAMBDA c : c # ",")

RECURSIVE Decimal(_)
Decimal(ds) ==
    IF ds = <<>> THEN 0
    ELSE 10 * Decimal(SubSeq(ds, 1, Len(ds) - 1)) + DigitValue(ds[Len(ds)])

PyFloat(ds) == IF ds = <<>> THEN ValueError ELSE Float(Decimal(ds))

ParsePrice(price_str) ==
    IF price_str = NoneText \/ price_str = <<>> THEN NoneVal
    ELSE LET b == RunStart(price_str, 1)
         IN  IF b = 0 THEN NoneVal
             ELSE PyFloat(RemoveCommas(SubSeq(price_str, b, RunEnd(price_str, b))))

(***************************************************************************)
(* URLs are sequences of path segments.                                    *)
(***************************************************************************)
NumericSegments == {"0", "12", "268"}

BuildPageUrl(base_url, page_index) ==
    base_url \o <<"0", "photo?num=100&page=" \o ToString(page_index)>>

\* re.search(r"/product-group/(\d+)", url)
ProductGroupOf(url) ==
    LET hits == {i \in 1..(Len(url) - 1) :
                    url[i] = "product-group" /\ url[i + 1] \in NumericSegments}
    IN  IF hits = {} THEN None
        ELSE url[(CHOOSE i \in hits : \A j \in hits : i <= j) + 1]

(***************************************************************************)
(* CardRush records, as parse_products builds them.                        *)
(***************************************************************************)
GoodItem(i) ==
    [product_id   |-> ToString(i),
     product_url  |-> "/product/" \o ToString(i),
     url          |-> None,
     name         |-> "card",
     name_full    |-> "card{001/019}",
     condition    |-> None,
     model_number |-> "001",
     set_size     |-> "019",
     model_code   |-> None,
     price        |-> <<"8", "0">>,
     series_code  |-> None]

\* The same product listed under another address.
MovedItem(i) == [GoodItem(i) EXCEPT !.product_url = "/moved/" \o ToString(i)]
\* A listing whose name carries no {number/size} part: model_number and set_size are None.
UnnumberedItem(i) ==
    [GoodItem(i) EXCEPT !.name_full = "card", !.model_number = None, !.set_size = None]

\* prices_cardrush is created outside these sources: either keyed on
\* (product_id, observed_at), as the persisted schema is specified, or without a key.
PricesCardrushKeyed == BOOLEAN

(***************************************************************************)
(* State.                                                                  *)
(***************************************************************************)
VARIABLES
    products_cardrush,  \* table products_cardrush (cardrushFetcher.py:389-413)
    prices_cardrush,    \* table prices_cardrush (cardrushFetcher.py:416-421)
    pricesKeyed,        \* whether prices_cardrush has a key on (product_id, observed_at)
    product_group,      \* CardrushFetcher.product_group (cardrushFetcher.py:95)
    clock,              \* the UTC clock read by datetime.now
    pc,                 \* position of crawl_series (download_cardrush.py:120-156)
    base_url,           \* crawl_series arguments series_code and base_url
    max_pages,          \* crawl_series argument max_pages
    page_index,         \* crawl_series local page_index
    first_page_fp,      \* crawl_series local first_page_fp
    items,              \* crawl_series local items: the records of the page in flight
    fetchLog,           \* history: every fetch_html call of the crawl, with what the
                        \* site answered (status, sent) and what the call gave
    saveLog,            \* history: every save_products_to_sqlite call of the crawl
    stop,               \* history: why crawl_series ended
    result,             \* what crawl_series handed back to its caller
    products,           \* table products (init_db.py:9-15)
    price_history,      \* table price_history (init_db.py:17-26)
    fetcher,            \* the fetcher class the caller has constructed
    pending,            \* whether the caller holds items it is about to save
    call_items,         \* the caller's items: the records handed to that call
    lastSave,           \* history: outcome of the latest direct save call
    calls,              \* history: number of direct save calls made so far
    cards_index,        \* table cards_index (limitlessFetcher.py:180-190)
    lang,               \* LimitlessFetcher.lang (limitlessFetcher.py:50)
    set_code,           \* LimitlessFetcher.set_code (limitlessFetcher.py:51)
    card_code,          \* LimitlessFetcher.card_code (limitlessFetcher.py:52)
    card_id,            \* LimitlessFetcher.card_id (limitlessFetcher.py:152)
    data_id,            \* LimitlessFetcher.data_id (limitlessFetcher.py:153)
    rarity,             \* LimitlessFetcher.rarity (limitlessFetcher.py:151)
    price_str,          \* the argument of a _parse_price call
    parsed,             \* what that call gave: a float, None, or the exception raised
    series_urls,        \* main: the rows loaded (download_cardrush.py:170,
                        \* full_process_limitless.py:23)
    series_index,       \* main: position of the loop over these rows
    card_index,         \* full_process_limitless.main: the loop variable card_code
    main_pc,            \* position of main
    attempts,           \* history: what main has attempted, in order
    runs                \* interleaved crawl_series calls: the locals of each

cardrushStore == <<products_cardrush, prices_cardrush, pricesKeyed>>
crawlVars == <<pc, base_url, max_pages, page_index, first_page_fp, items,
               fetchLog, saveLog, stop, result>>
simpleStore == <<products, price_history>>
callVars == <<fetcher, pending, call_items, lastSave, calls>>
limitlessVars == <<cards_index, lang, set_code, card_code, card_id, data_id, rarity>>
parseVars == <<price_str, parsed>>
mainVars == <<series_urls, series_index, card_index, main_pc, attempts>>
vars == <<cardrushStore, product_group, clock, crawlVars, simpleStore, callVars, limitlessVars,
          parseVars, mainVars, runs>>

(***************************************************************************)
(* CardrushFetcher.save_products_to_sqlite                                 *)
(***************************************************************************)
RowIndex(table, product_id) ==
    LET hits == {i \in 1..Len(table) : table[i].product_id = product_id}
    IN  IF hits = {} THEN 0 ELSE CHOOSE i \in hits : \A j \in hits : i <= j

CardrushUrl(it) == IF Truthy(it.product_url) THEN it.product_url ELSE it.url

\* CardrushAccepts that also takes the optional condition for required.
CardrushAcceptsStrict(it, price_yen) ==
    /\ Truthy(it.product_id) /\ Truthy(CardrushUrl(it))
    /\ Truthy(it.name) /\ Truthy(it.name_full)
    /\ Truthy(it.model_number) /\ Truthy(it.condition)
    /\ price_yen # NoneVal

CardrushAccepts(it, price_yen) ==
    /\ Truthy(it.product_id) /\ Truthy(CardrushUrl(it))
    /\ Truthy(it.name) /\ Truthy(it.name_full)
    /\ Truthy(it.model_number)
    /\ price_yen # NoneVal

\* UpsertProductCardrush as INSERT OR REPLACE: the stored row gives way whole,
\* created_at included.
UpsertProductCardrushReplace(rows, it, group, price_yen, observed_at) ==
    LET k == RowIndex(rows, it.product_id)
        row == [product_id    |-> it.product_id,
                product_group |-> group,
                model_number  |-> it.model_number,
                set_size      |-> it.set_size,
                name          |-> it.name,
                name_full     |-> it.name_full,
                condition     |-> it.condition,
                model_code    |-> it.model_code,
                price_yen     |-> price_yen.v,
                url           |-> CardrushUrl(it),
                created_at    |-> observed_at,
                updated_at    |-> observed_at]
    IN  IF k = 0 THEN Append(rows, row) ELSE [rows EXCEPT ![k] = row]

\* INSERT INTO products_cardrush ... ON CONFLICT(product_id) DO UPDATE SET ...
UpsertProductCardrush(rows, it, group, price_yen, observed_at) ==
    LET k == RowIndex(rows, it.product_id)
        row == [product_id    |-> it.product_id,
                product_group |-> group,
                model_number  |-> it.model_number,
                set_size      |-> it.set_size,
                name          |-> it.name,
                name_full     |-> it.name_full,
                condition     |-> it.condition,
                model_code    |-> it.model_code,
                price_yen     |-> price_yen.v,
                url           |-> CardrushUrl(it),
                created_at    |-> observed_at,
                updated_at    |-> observed_at]
    IN  IF k = 0 THEN Append(rows, row)
        ELSE [rows EXCEPT ![k] = [row EXCEPT !.created_at = rows[k].created_at]]

\* INSERT INTO prices_cardrush (product_id, observed_at, price_yen) VALUES (?, ?, ?)
InsertPriceCardrush(prices, keyed, product_id, observed_at, price_yen) ==
    IF keyed /\ \E i \in 1..Len(prices) :
                    /\ prices[i].product_id = product_id
                    /\ prices[i].observed_at = observed_at
    THEN [exc |-> "IntegrityError", rows |-> prices]
    ELSE [exc |-> "",
          rows |-> Append(prices, [product_id  |-> product_id,
                                   observed_at |-> observed_at,
                                   price_yen   |-> price_yen.v])]

\* One pass of the loop body `for it in items`, on the transaction state st.
\* fault = i: the storage engine fails (sqlite3.OperationalError) on record i's writes.
CardrushWriteItem(st, it, i, group, observed_at, keyed, fault) ==
    LET price_yen == ParsePrice(it.price)
    IN  IF price_yen = ValueError THEN [st EXCEPT !.exc = "ValueError"]
        ELSE IF ~CardrushAccepts(it, price_yen) THEN st
        ELSE IF fault = i THEN [st EXCEPT !.exc = "OperationalError"]
        ELSE LET upserted == UpsertProductCardrush(st.products, it, group,
                                                   price_yen, observed_at)
                 ins == InsertPriceCardrush(st.prices, keyed, it.product_id,
                                            observed_at, price_yen)
             IN  IF ins.exc # "" THEN [st EXCEPT !.exc = ins.exc]
                 ELSE [st EXCEPT !.written = st.written + 1,
                                 !.products = upserted,
                                 !.prices = ins.rows]

RECURSIVE CardrushWriteLoop(_, _, _, _, _, _, _)
CardrushWriteLoop(st, batch, i, group, observed_at, keyed, fault) ==
    IF i > Len(batch) \/ st.exc # "" THEN st
    ELSE CardrushWriteLoop(
             CardrushWriteItem(st, batch[i], i, group, observed_at, keyed, fault),
             batch, i + 1, group, observed_at, keyed, fault)

\* The whole call: the result, and the tables as they are after it.  An exception
\* leaves the `with sqlite3.connect(...)` block, which rolls the transaction back:
\* undone counts the records whose writes are rolled back.
CardrushSaveProducts(batch, group, observed_at, keyed, rows, prices, fault) ==
    LET begin == [exc |-> "", written |-> 0, undone |-> 0,
                  products |-> rows, prices |-> prices]
    IN  IF ~Truthy(group) THEN [begin EXCEPT !.exc = "RuntimeError"]
        ELSE LET end == CardrushWriteLoop(begin, batch, 1, group, observed_at,
                                          keyed, fault)
             IN  IF end.exc # ""
                 THEN [begin EXCEPT !.exc = end.exc, !.undone = end.written]
                 ELSE end

(***************************************************************************)
(* CardrushFetcher.fetch_html and parse_products                           *)
(***************************************************************************)
\* What the site and the local disk do for one request: the request fails
\* ("transport"), or it returns markup and writing the raw payload under html_dir
\* fails ("archive") or succeeds ("ok").
Response(kind, page) == [kind |-> kind, page |-> page]

FetchHtml(url, response) ==
    LET group == ProductGroupOf(url)
    IN  IF response.kind = "transport"
        THEN [exc |-> "RequestException", html |-> <<>>, product_group |-> group]
        ELSE IF response.kind = "archive"
        THEN [exc |-> "OSError", html |-> <<>>, product_group |-> group]
        ELSE [exc |-> "", html |-> response.page, product_group |-> group]

\* Markup is represented by the records it holds, in document order.
ParseProducts(html) == html

(***************************************************************************)
(* download_cardrush.crawl_series                                          *)
(***************************************************************************)
NoFp == <<>>     \* first_page_fp = None
NoResult == "<no result>"     \* crawl_series has not returned

\* Lines 97-102 and 134-149: declared -> None, each stop rule ends the loop with
\* break and the function falls off its end, so every reason gives None.
CrawlSeriesResult(reason) == None

PageFingerprint(page) ==
    IF page = <<>> THEN NoFp ELSE <<page[1].product_id, page[1].product_url>>

\* StopRule without the comparison against page 1.
StopRuleNoLoop(index, page, first_fp) == IF page = <<>> THEN "empty" ELSE ""

\* StopRule without the empty-page test.
StopRuleNoEmpty(index, page, first_fp) ==
    IF index # 1 /\ PageFingerprint(page) = first_fp THEN "loop" ELSE ""

\* Lines 133-149: "empty" and "loop" break out of the loop, "" goes on to persist.
StopRule(index, page, first_fp) ==
    IF page = <<>> THEN "empty"
    ELSE IF index # 1 /\ PageFingerprint(page) = first_fp THEN "loop"
    ELSE ""

TagSeries(page, series_code) ==
    [k \in 1..Len(page) |-> [page[k] EXCEPT !.series_code = series_code]]

\* Rows of series_url_jp, as load_series_urls returns them.
SeriesUrls ==
    {[series_code |-> "SV1", list_url |-> <<"product-group", "268">>],
     [series_code |-> "SV2a", list_url |-> <<"product-list", "5">>]}

\* The pages the modelled site can answer with: the first n products of any listing
\* page (MaxBatch products to the page); a full page whose first product is relisted
\* under another address or carries no number; a page that lists one product twice.
PageStarts == {s \in 1..NumIds : (s - 1) % MaxBatch = 0}
Window(s, n) == [k \in 1..n |-> GoodItem(((s + k - 2) % NumIds) + 1)]
PagesFrom(s) ==
    {Window(s, n) : n \in 1..MaxBatch}
    \cup {[Window(s, MaxBatch) EXCEPT ![1] = f] : f \in {MovedItem(s), UnnumberedItem(s)}}
    \cup {<<GoodItem(s), GoodItem(s)>>}
SitePages == {<<>>} \cup UNION {PagesFrom(s) : s \in PageStarts}
Responses ==
    {Response("transport", <<>>)}
    \cup {Response(kind, page) : kind \in {"ok", "archive"}, page \in SitePages}

NoCall == [exc |-> "", written |-> 0, size |-> 0, undone |-> 0]
CallsIdle == pending = FALSE /\ call_items = <<>> /\ lastSave = NoCall /\ calls = 0
SimpleIdle == products = <<>> /\ price_history = <<>>
CardrushIdle ==
    /\ products_cardrush = <<>>
    /\ prices_cardrush = <<>>
    /\ pricesKeyed = TRUE
    /\ product_group = None
Unset == "<unset>"                  \* an attribute never assigned: reading it raises
UnsetText == <<"<unset>">>
LimitlessIdle ==
    /\ cards_index = <<>>
    /\ lang = Unset /\ set_code = Unset /\ card_code = Unset
    /\ card_id = UnsetText /\ data_id = UnsetText /\ rarity = Unset
MainIdle ==
    /\ series_urls = <<>> /\ series_index = 0 /\ card_index = 0
    /\ main_pc = "idle" /\ attempts = <<>>
NotCalled == [tag |-> "not called", v |-> 0]
ParseIdle == price_str = <<>> /\ parsed = NotCalled
CrawlIdle ==
    /\ pc = "idle"
    /\ base_url = [series_code |-> "", list_url |-> <<>>]
    /\ max_pages = 0
    /\ page_index = 0
    /\ first_page_fp = NoFp
    /\ items = <<>>
    /\ fetchLog = <<>>
    /\ saveLog = <<>>
    /\ stop = ""
    /\ result = NoResult

CrawlInit ==
    /\ runs = <<>>
    /\ MainIdle
    /\ ParseIdle
    /\ LimitlessIdle
    /\ SimpleIdle
    /\ CallsIdle
    /\ fetcher = "CardrushFetcher"
    /\ products_cardrush = <<>>
    /\ prices_cardrush = <<>>
    /\ pricesKeyed \in PricesCardrushKeyed
    /\ product_group = None
    /\ clock = 1
    /\ pc = "loop"
    /\ \E seg \in SeriesUrls : base_url = seg
    /\ max_pages \in 1..MaxPagesBound
    /\ page_index = 1
    /\ first_page_fp = NoFp
    /\ items = <<>>
    /\ fetchLog = <<>>
    /\ saveLog = <<>>
    /\ stop = ""
    /\ result = NoResult

\* An exception leaves crawl_series: nothing in it catches.
CrawlRaise ==
    /\ pc' = "raised"
    /\ stop' = "raised"
    /\ UNCHANGED <<base_url, max_pages, page_index, first_page_fp, items, result>>

\* Lines 120-149: build the page address, fetch, parse, apply the stop rules.
CrawlFetchFrom(responses) ==
    /\ pc = "loop"
    /\ page_index <= max_pages
    /\ \E response \in responses :
         LET got == FetchHtml(BuildPageUrl(base_url.list_url, page_index), response)
             page == ParseProducts(got.html)
             rule == StopRule(page_index, page, first_page_fp)
         IN  /\ product_group' = got.product_group
             /\ fetchLog' = Append(fetchLog, [page_index |-> page_index,
                                              status |-> response.kind,
                                              sent |-> response.page,
                                              exc |-> got.exc, page |-> page])
             /\ IF got.exc # "" THEN CrawlRaise
                ELSE IF rule # ""
                THEN /\ pc' = "returned"
                     /\ stop' = rule
                     /\ result' = CrawlSeriesResult(rule)
                     /\ UNCHANGED <<base_url, max_pages, page_index, first_page_fp, items>>
                ELSE /\ pc' = "save"
                     /\ first_page_fp' = IF page_index = 1 THEN PageFingerprint(page)
                                         ELSE first_page_fp
                     /\ items' = page
                     /\ UNCHANGED <<base_url, max_pages, page_index, stop, result>>
    /\ UNCHANGED <<cardrushStore, clock, saveLog, simpleStore, callVars,
                   limitlessVars>>
    /\ UNCHANGED parseVars
    /\ UNCHANGED mainVars
    /\ UNCHANGED runs

CrawlFetch == CrawlFetchFrom(Responses)

\* Lines 151-156: tag the records and persist them.
CrawlSave ==
    /\ pc = "save"
    /\ \E fault \in 0..MaxBatch :
         LET tagged == TagSeries(items, base_url.series_code)
             saved == CardrushSaveProducts(tagged, product_group, clock, pricesKeyed,
                                           products_cardrush, prices_cardrush, fault)
         IN  /\ saveLog' = Append(saveLog, [page_index |-> page_index,
                                            exc |-> saved.exc,
                                            written |-> saved.written,
                                            page |-> tagged])
             /\ products_cardrush' = saved.products
             /\ prices_cardrush' = saved.prices
             /\ IF saved.exc # "" THEN CrawlRaise
                ELSE /\ pc' = "loop"
                     /\ page_index' = page_index + 1
                     /\ items' = tagged
                     /\ UNCHANGED <<base_url, max_pages, first_page_fp, stop, result>>
    /\ clock' = clock + 1
    /\ UNCHANGED <<pricesKeyed, product_group, fetchLog, simpleStore, callVars,
                   limitlessVars>>
    /\ UNCHANGED parseVars
    /\ UNCHANGED mainVars
    /\ UNCHANGED runs

\* range(1, max_pages + 1) is exhausted: crawl_series returns None.
CrawlExhausted ==
    /\ pc = "loop"
    /\ page_index > max_pages
    /\ pc' = "returned"
    /\ stop' = "max"
    /\ result' = CrawlSeriesResult("max")
    /\ UNCHANGED <<cardrushStore, product_group, clock, base_url, max_pages, page_index,
                   first_page_fp, items, fetchLog, saveLog, simpleStore, callVars, limitlessVars>>
    /\ UNCHANGED parseVars
    /\ UNCHANGED mainVars
    /\ UNCHANGED runs

CrawlNext == CrawlFetch \/ CrawlSave \/ CrawlExhausted

SpecCrawl == CrawlInit /\ [][CrawlNext]_vars

(***************************************************************************)
(* download_cardrush.main                                                  *)
(***************************************************************************)
\* What load_series_urls can return: up to MaxSegments rows of series_url_jp.
SeriesLists ==
    UNION {[1..n -> SeriesUrls] : n \in 0..MaxSegments}

\* What the site answers while main runs: no answer, a page without products, a
\* page with one product.
MainResponses ==
    {Response("transport", <<>>), Response("ok", <<>>)}
    \cup {Response("ok", <<GoodItem(i)>>) : i \in 1..2}

\* Lines 163-172: the fetcher is constructed and the rows are loaded.
MainInit ==
    /\ runs = <<>>
    /\ ParseIdle
    /\ LimitlessIdle
    /\ SimpleIdle
    /\ CallsIdle
    /\ CrawlIdle
    /\ fetcher = "CardrushFetcher"
    /\ products_cardrush = <<>>
    /\ prices_cardrush = <<>>
    /\ pricesKeyed \in PricesCardrushKeyed
    /\ product_group = None
    /\ clock = 1
    /\ series_urls \in SeriesLists
    /\ series_index = 1
    /\ card_index = 0
    /\ main_pc = "loop"
    /\ attempts = <<>>

\* Lines 174-175: the next row is handed to crawl_series, with max_pages left at
\* its default (the largest max_pages of the model stands for the source's 14).
MainCrawl ==
    /\ main_pc = "loop"
    /\ series_index <= Len(series_urls)
    /\ main_pc' = "crawl"
    /\ attempts' = Append(attempts, series_index)
    /\ pc' = "loop"
    /\ base_url' = series_urls[series_index]
    /\ max_pages' = MaxPagesBound
    /\ page_index' = 1
    /\ first_page_fp' = NoFp
    /\ items' = <<>>
    /\ fetchLog' = <<>>
    /\ saveLog' = <<>>
    /\ stop' = ""
    /\ result' = NoResult
    /\ UNCHANGED <<series_urls, series_index, card_index>>
    /\ UNCHANGED <<cardrushStore, product_group, clock, simpleStore, callVars,
                   limitlessVars, parseVars>>
    /\ UNCHANGED runs

\* crawl_series at work for main.
MainFetch == main_pc = "crawl" /\ CrawlFetchFrom(MainResponses)
MainSave == main_pc = "crawl" /\ CrawlSave
MainExhausted == main_pc = "crawl" /\ CrawlExhausted

\* Line 174: crawl_series has returned, the loop goes on to the next row.
MainReturn ==
    /\ main_pc = "crawl"
    /\ pc = "returned"
    /\ main_pc' = "loop"
    /\ series_index' = series_index + 1
    /\ UNCHANGED <<series_urls, card_index, attempts>>
    /\ UNCHANGED <<cardrushStore, product_group, clock, crawlVars, simpleStore, callVars,
                   limitlessVars, parseVars>>
    /\ UNCHANGED runs

\* Lines 174-175: the call is not inside a try, so an exception of crawl_series
\* leaves the loop and main.
MainRaise ==
    /\ main_pc = "crawl"
    /\ pc = "raised"
    /\ main_pc' = "raised"
    /\ UNCHANGED <<series_urls, series_index, card_index, attempts>>
    /\ UNCHANGED <<cardrushStore, product_group, clock, crawlVars, simpleStore, callVars,
                   limitlessVars, parseVars>>
    /\ UNCHANGED runs

\* The rows are exhausted: main returns.
MainDone ==
    /\ main_pc = "loop"
    /\ series_index > Len(series_urls)
    /\ main_pc' = "done"
    /\ UNCHANGED <<series_urls, series_index, card_index, attempts>>
    /\ UNCHANGED <<cardrushStore, product_group, clock, crawlVars, simpleStore, callVars,
                   limitlessVars, parseVars>>
    /\ UNCHANGED runs

MainNext ==
    MainCrawl \/ MainFetch \/ MainSave \/ MainExhausted \/ MainReturn \/ MainRaise
        \/ MainDone

SpecMain == MainInit /\ [][MainNext]_vars

(***************************************************************************)
(* Two crawl_series calls on one CardrushFetcher, interleaved                *)
(***************************************************************************)
RunIds == {1, 2}

\* The segments the two calls are made for: different rows of series_url_jp.
Segments ==
    SeriesUrls \cup {[series_code |-> "SV2", list_url |-> <<"product-group", "12">>]}
SegmentPairs == {pair \in [RunIds -> Segments] : pair[1] # pair[2]}

\* The locals of one call (download_cardrush.py:116-156), with the product group
\* of the address its page in flight was fetched from.
CallStart(segment) ==
    [pc |-> "loop", base_url |-> segment, page_index |-> 1, first_page_fp |-> NoFp,
     items |-> <<>>, page_group |-> None, stop |-> ""]

\* download_cardrush.py:163-166: one fetcher, handed to every crawl_series call.
InterleavedInit ==
    /\ ParseIdle
    /\ LimitlessIdle
    /\ SimpleIdle
    /\ CallsIdle
    /\ CrawlIdle
    /\ MainIdle
    /\ fetcher = "CardrushFetcher"
    /\ products_cardrush = <<>>
    /\ prices_cardrush = <<>>
    /\ pricesKeyed \in PricesCardrushKeyed
    /\ product_group = None
    /\ clock = 1
    /\ \E pair \in SegmentPairs : runs = [r \in RunIds |-> CallStart(pair[r])]

\* Lines 120-149 in call r: fetch_html assigns self.product_group of the one
\* fetcher (cardrushFetcher.py:88-95), then the page is parsed and the stop rules
\* are applied.
InterleavedFetch(r) ==
    /\ runs[r].pc = "loop"
    /\ runs[r].page_index <= MaxPagesBound
    /\ \E response \in MainResponses :
         LET url == BuildPageUrl(runs[r].base_url.list_url, runs[r].page_index)
             got == FetchHtml(url, response)
             page == ParseProducts(got.html)
             rule == StopRule(runs[r].page_index, page, runs[r].first_page_fp)
         IN  /\ product_group' = got.product_group
             /\ runs' = [runs EXCEPT ![r] =
                   IF got.exc # "" THEN [@ EXCEPT !.pc = "raised", !.stop = "raised"]
                   ELSE IF rule # "" THEN [@ EXCEPT !.pc = "returned", !.stop = rule]
                   ELSE [@ EXCEPT !.pc = "save",
                                  !.first_page_fp = IF runs[r].page_index = 1
                                                    THEN PageFingerprint(page) ELSE @,
                                  !.items = page,
                                  !.page_group = ProductGroupOf(url)]]
    /\ UNCHANGED <<cardrushStore, clock, crawlVars, simpleStore, callVars, limitlessVars,
                   parseVars, mainVars>>

\* Lines 151-156 in call r: save_products_to_sqlite reads self.product_group of
\* the one fetcher (cardrushFetcher.py:351-354).
InterleavedSave(r) ==
    /\ runs[r].pc = "save"
    /\ \E fault \in 0..Len(runs[r].items) :
         LET tagged == TagSeries(runs[r].items, runs[r].base_url.series_code)
             saved == CardrushSaveProducts(tagged, product_group, clock, pricesKeyed,
                                           products_cardrush, prices_cardrush, fault)
         IN  /\ products_cardrush' = saved.products
             /\ prices_cardrush' = saved.prices
             /\ runs' = [runs EXCEPT ![r] =
                   IF saved.exc # "" THEN [@ EXCEPT !.pc = "raised", !.stop = "raised"]
                   ELSE [@ EXCEPT !.pc = "loop", !.page_index = @ + 1,
                                  !.items = tagged]]
    /\ clock' = clock + 1
    /\ UNCHANGED <<pricesKeyed, product_group, crawlVars, simpleStore, callVars,
                   limitlessVars, parseVars, mainVars>>

\* range(1, max_pages + 1) is exhausted in call r.
InterleavedExhausted(r) ==
    /\ runs[r].pc = "loop"
    /\ runs[r].page_index > MaxPagesBound
    /\ runs' = [runs EXCEPT ![r] = [@ EXCEPT !.pc = "returned", !.stop = "max"]]
    /\ UNCHANGED <<cardrushStore, product_group, clock, crawlVars, simpleStore, callVars,
                   limitlessVars, parseVars, mainVars>>

InterleavedNext ==
    \E r \in RunIds : InterleavedFetch(r) \/ InterleavedSave(r) \/ InterleavedExhausted(r)

SpecInterleaved == InterleavedInit /\ [][InterleavedNext]_vars

(***************************************************************************)
(* Time.  The clock counts ticks, TicksPerDay to the UTC calendar day; between *)
(* two calls it moves on within the day or to the start of the next day.    *)
(***************************************************************************)
TicksPerDay == 4
DateOf(now) == now \div TicksPerDay                     \* now.date()
LaterTimes(now) == {now + 1, (DateOf(now) + 1) * TicksPerDay}

(***************************************************************************)
(* SimpleFetcher.save_products_to_sqlite, on the schema of init_db.py      *)
(***************************************************************************)
\* Records as SimpleFetcher.parse_products builds them.
SimpleItem(i, name, price, stock) ==
    [product_id   |-> ToString(i),
     name         |-> name,
     model_number |-> None,
     price        |-> price,
     stock        |-> stock,
     product_url  |-> "/product/" \o ToString(i),
     image_url    |-> None,
     image_alt    |-> None]

SimpleAccepts(it) == Truthy(it.product_id) /\ Truthy(it.name) /\ Truthy(it.product_url)

\* INSERT INTO products ... ON CONFLICT(product_id) DO UPDATE SET url, name, updated_at
UpsertProduct(rows, it, captured_at) ==
    LET k == RowIndex(rows, it.product_id)
    IN  IF k = 0
        THEN Append(rows, [product_id |-> it.product_id,
                           url        |-> it.product_url,
                           name       |-> it.name,
                           created_at |-> captured_at,
                           updated_at |-> captured_at])
        ELSE [rows EXCEPT ![k] = [@ EXCEPT !.url = it.product_url,
                                           !.name = it.name,
                                           !.updated_at = captured_at]]

HistoryIndex(rows, product_id, captured_date) ==
    LET hits == {i \in 1..Len(rows) : /\ rows[i].product_id = product_id
                                      /\ rows[i].captured_date = captured_date}
    IN  IF hits = {} THEN 0 ELSE CHOOSE i \in hits : \A j \in hits : i <= j

\* UpsertPriceHistory with the conflict on product_id alone: one row per product,
\* moved to the day of the latest save.
UpsertPriceHistoryAnyDay(rows, it, captured_date, captured_at, price, currency) ==
    LET k == RowIndex(rows, it.product_id)
        row == [product_id    |-> it.product_id,
                captured_date |-> captured_date,
                captured_at   |-> captured_at,
                price         |-> price,
                currency      |-> currency,
                stock_status  |-> it.stock]
    IN  IF k = 0 THEN Append(rows, row) ELSE [rows EXCEPT ![k] = row]

\* UpsertPriceHistory with ON CONFLICT ... DO NOTHING: the day's first row stays.
UpsertPriceHistoryKeepFirst(rows, it, captured_date, captured_at, price, currency) ==
    IF HistoryIndex(rows, it.product_id, captured_date) # 0 THEN rows
    ELSE Append(rows, [product_id    |-> it.product_id,
                       captured_date |-> captured_date,
                       captured_at   |-> captured_at,
                       price         |-> price,
                       currency      |-> currency,
                       stock_status  |-> it.stock])

\* INSERT INTO price_history ... ON CONFLICT(product_id, captured_date) DO UPDATE SET
\* captured_at, price, currency, stock_status.  A None price is stored as NULL.
UpsertPriceHistory(rows, it, captured_date, captured_at, price, currency) ==
    LET k == HistoryIndex(rows, it.product_id, captured_date)
    IN  IF k = 0
        THEN Append(rows, [product_id    |-> it.product_id,
                           captured_date |-> captured_date,
                           captured_at   |-> captured_at,
                           price         |-> price,
                           currency      |-> currency,
                           stock_status  |-> it.stock])
        ELSE [rows EXCEPT ![k] = [@ EXCEPT !.captured_at = captured_at,
                                           !.price = price,
                                           !.currency = currency,
                                           !.stock_status = it.stock]]

\* One pass of the loop body `for it in items`, on the transaction state st.
SimpleWriteItem(st, it, i, captured_date, captured_at, currency, fault) ==
    IF ~SimpleAccepts(it) THEN st
    ELSE IF fault = i THEN [st EXCEPT !.exc = "OperationalError"]
    ELSE LET upserted == UpsertProduct(st.products, it, captured_at)
             price == ParsePrice(it.price)
         IN  IF price = ValueError THEN [st EXCEPT !.exc = "ValueError"]
             ELSE [st EXCEPT !.written = st.written + 1,
                             !.products = upserted,
                             !.history = UpsertPriceHistory(st.history, it, captured_date,
                                                            captured_at, price, currency)]

RECURSIVE SimpleWriteLoop(_, _, _, _, _, _, _)
SimpleWriteLoop(st, batch, i, captured_date, captured_at, currency, fault) ==
    IF i > Len(batch) \/ st.exc # "" THEN st
    ELSE SimpleWriteLoop(
             SimpleWriteItem(st, batch[i], i, captured_date, captured_at, currency, fault),
             batch, i + 1, captured_date, captured_at, currency, fault)

\* SimpleSaveProducts without the rollback: what was written before the exception
\* stays.
SimpleSaveProductsNoRollback(batch, now, currency, rows, history, fault) ==
    LET begin == [exc |-> "", written |-> 0, undone |-> 0,
                  products |-> rows, history |-> history]
        end == SimpleWriteLoop(begin, batch, 1, DateOf(now), now, currency, fault)
    IN  IF end.exc # "" THEN [end EXCEPT !.written = 0, !.undone = end.written] ELSE end

\* The whole call; an exception leaves the `with sqlite3.connect(...)` block, which
\* rolls the transaction back: undone counts the records whose writes are rolled back.
SimpleSaveProducts(batch, now, currency, rows, history, fault) ==
    LET begin == [exc |-> "", written |-> 0, undone |-> 0,
                  products |-> rows, history |-> history]
        end == SimpleWriteLoop(begin, batch, 1, DateOf(now), now, currency, fault)
    IN  IF end.exc # ""
        THEN [begin EXCEPT !.exc = end.exc, !.undone = end.written]
        ELSE end

\* The records handed to the direct save calls, in listing order: two products,
\* the first of them also in a later state of name, price and stock, without
\* a price (no text, commas only), and with product_id, name or product_url
\* missing.
SimpleGood(i) == SimpleItem(i, "card", <<"8", "0">>, "in stock")
SimplePool ==
    <<SimpleGood(1), SimpleItem(1, "card (new)", <<"1", ",", "2">>, None),
      SimpleGood(2),
      SimpleItem(1, "card", NoneText, "in stock"),
      SimpleItem(1, "card", <<",">>, "in stock"),
      [SimpleGood(1) EXCEPT !.product_id = None],
      [SimpleGood(1) EXCEPT !.name = None],
      [SimpleGood(1) EXCEPT !.product_url = None]>>

\* Batches of at most MaxSaveBatch records of a pool, in listing order; a record
\* may be listed more than once.
Batches(pool) ==
    UNION {{[k \in 1..n |-> pool[f[k]]] :
               f \in {g \in [1..n -> 1..Len(pool)] :
                         \A a, b \in 1..n : a < b => g[a] <= g[b]}} :
           n \in 0..MaxSaveBatch}

SimpleBatches == Batches(SimplePool)

SimpleInit ==
    /\ runs = <<>>
    /\ MainIdle
    /\ ParseIdle
    /\ LimitlessIdle
    /\ SimpleIdle
    /\ CallsIdle
    /\ CardrushIdle
    /\ CrawlIdle
    /\ fetcher = "SimpleFetcher"
    /\ clock = 1

\* fetcher.py:182-183: the caller obtains the items it is about to save.
SimpleParse ==
    /\ fetcher = "SimpleFetcher"
    /\ ~pending
    /\ calls < MaxSaves
    /\ pending' = TRUE
    /\ call_items' \in SimpleBatches
    /\ UNCHANGED <<cardrushStore, product_group, clock, crawlVars, simpleStore,
                   fetcher, lastSave, calls, limitlessVars>>
    /\ UNCHANGED parseVars
    /\ UNCHANGED mainVars
    /\ UNCHANGED runs

\* fetcher.py:184: save_products_to_sqlite(items).
SimpleSave ==
    /\ fetcher = "SimpleFetcher"
    /\ pending
    /\ \E fault \in 0..Len(call_items) :
         LET saved == SimpleSaveProducts(call_items, clock, "JPY", products,
                                         price_history, fault)
         IN  /\ products' = saved.products
             /\ price_history' = saved.history
             /\ lastSave' = [exc |-> saved.exc, written |-> saved.written,
                             size |-> Len(call_items), undone |-> saved.undone]
    /\ pending' = FALSE
    /\ call_items' = <<>>
    /\ calls' = calls + 1
    /\ clock' \in LaterTimes(clock)
    /\ UNCHANGED <<cardrushStore, product_group, crawlVars, fetcher,
                   limitlessVars>>
    /\ UNCHANGED parseVars
    /\ UNCHANGED mainVars
    /\ UNCHANGED runs

SimpleNext == SimpleParse \/ SimpleSave

SpecSimple == SimpleInit /\ [][SimpleNext]_vars

(***************************************************************************)
(* CardrushFetcher used directly: fetch_html, parse_products, save         *)
(***************************************************************************)
\* The records handed to the direct save calls, in listing order: two products,
\* the first of them also in a later state of price and condition, without a price
\* (no text, commas only), without a name, without a card number, and without
\* product_id behind a commas-only price.
CardrushPool ==
    <<GoodItem(1),
      [GoodItem(1) EXCEPT !.price = <<"1", ",", "2">>, !.condition = "A"],
      GoodItem(2),
      [GoodItem(1) EXCEPT !.price = NoneText],
      [GoodItem(1) EXCEPT !.price = <<",">>],
      [GoodItem(1) EXCEPT !.name = None, !.name_full = None],
      UnnumberedItem(1),
      [GoodItem(1) EXCEPT !.product_id = None, !.price = <<",">>]>>

CardrushBatches == Batches(CardrushPool)

\* cardrushFetcher.py:437: the listing the caller fetches.
GroupUrl == <<"product-group", "268">>

CardrushInit ==
    /\ runs = <<>>
    /\ MainIdle
    /\ ParseIdle
    /\ LimitlessIdle
    /\ SimpleIdle
    /\ CallsIdle
    /\ CrawlIdle
    /\ fetcher = "CardrushFetcher"
    /\ products_cardrush = <<>>
    /\ prices_cardrush = <<>>
    /\ pricesKeyed \in PricesCardrushKeyed
    /\ product_group = None
    /\ clock = 1

\* cardrushFetcher.py:440-441: fetch_html(url) and parse_products(html).
CardrushParse ==
    /\ fetcher = "CardrushFetcher"
    /\ ~pending
    /\ calls < MaxSaves
    /\ \E response \in {Response("transport", <<>>)}
                       \cup {Response("ok", page) : page \in CardrushBatches} :
         LET got == FetchHtml(GroupUrl, response)
         IN  /\ product_group' = got.product_group
             /\ pending' = (got.exc = "")
             /\ call_items' = ParseProducts(got.html)
    /\ UNCHANGED <<cardrushStore, clock, crawlVars, simpleStore, fetcher, lastSave, calls,
                   limitlessVars>>
    /\ UNCHANGED parseVars
    /\ UNCHANGED mainVars
    /\ UNCHANGED runs

\* cardrushFetcher.py:442: save_products_to_sqlite(items).
CardrushSave ==
    /\ fetcher = "CardrushFetcher"
    /\ pending
    /\ \E fault \in 0..Len(call_items) :
         LET saved == CardrushSaveProducts(call_items, product_group, clock, pricesKeyed,
                                           products_cardrush, prices_cardrush, fault)
         IN  /\ products_cardrush' = saved.products
             /\ prices_cardrush' = saved.prices
             /\ lastSave' = [exc |-> saved.exc, written |-> saved.written,
                             size |-> Len(call_items), undone |-> saved.undone]
    /\ pending' = FALSE
    /\ call_items' = <<>>
    /\ calls' = calls + 1
    /\ clock' = clock + 1
    /\ UNCHANGED <<pricesKeyed, product_group, crawlVars, simpleStore, fetcher,
                   limitlessVars>>
    /\ UNCHANGED parseVars
    /\ UNCHANGED mainVars
    /\ UNCHANGED runs

CardrushNext == CardrushParse \/ CardrushSave

SpecCardrush == CardrushInit /\ [][CardrushNext]_vars

\* Either fetcher, as the caller constructs it.
SaveInit == SimpleInit \/ CardrushInit
SaveNext == SimpleNext \/ CardrushNext
SpecSave == SaveInit /\ [][SaveNext]_vars

(***************************************************************************)
(* LimitlessFetcher: fetch_html, extract_rarity, save_card_index           *)
(***************************************************************************)
IntVal(n) == [tag |-> "int", v |-> n]
AllDigits(text) == text # <<>> /\ \A k \in 1..Len(text) : IsDigit(text[k])

\* What a column of INTEGER affinity stores for a bound str or None.
IntegerAffinity(text) ==
    IF text = NoneText THEN NoneVal
    ELSE IF AllDigits(text) THEN IntVal(Decimal(text))
    ELSE [tag |-> "text", v |-> 0]

CardIndex(rows, id) ==
    LET hits == {i \in 1..Len(rows) : rows[i].card_id = id}
    IN  IF hits = {} THEN 0 ELSE CHOOSE i \in hits : \A j \in hits : i <= j

\* The rowid SQLite assigns to a row inserted with card_id NULL.
NextRowid(rows) ==
    IF rows = <<>> THEN 1
    ELSE 1 + (CHOOSE m \in {rows[i].card_id : i \in 1..Len(rows)} :
                 \A i \in 1..Len(rows) : rows[i].card_id <= m)

\* UNIQUE(lang, set_code, card_code): some row other than row k maps the same card.
MappingTaken(rows, k, row) ==
    \E i \in 1..Len(rows) :
        /\ i # k
        /\ rows[i].lang = row.lang
        /\ rows[i].set_code = row.set_code
        /\ rows[i].card_code = row.card_code

\* The DO UPDATE SET clause that takes every excluded value as it comes.
ConflictUpdateOverwrite(old, excluded) == excluded

\* ON CONFLICT(card_id) DO UPDATE SET ...: lines 238-252.
ConflictUpdate(old, excluded) ==
    [card_id   |-> old.card_id,
     data_id   |-> IF excluded.data_id # NoneVal THEN excluded.data_id ELSE old.data_id,
     lang      |-> excluded.lang,
     set_code  |-> excluded.set_code,
     card_code |-> excluded.card_code,
     rarity    |-> IF excluded.rarity # None THEN excluded.rarity ELSE old.rarity]

\* The INSERT ... ON CONFLICT statement on the table: the exception raised, if any,
\* and the rows after it.
UpsertCardIndex(rows, id_text, data_text, l, s, c, r) ==
    LET id == IntegerAffinity(id_text)
        excluded == [card_id   |-> IF id = NoneVal THEN NextRowid(rows) ELSE id.v,
                     data_id   |-> IntegerAffinity(data_text),
                     lang      |-> l,
                     set_code  |-> s,
                     card_code |-> c,
                     rarity    |-> r]
        k == IF id = NoneVal THEN 0 ELSE CardIndex(rows, excluded.card_id)
    IN  IF id.tag = "text" THEN [exc |-> "IntegrityError", rows |-> rows]
        ELSE IF MappingTaken(rows, k, excluded)
        THEN [exc |-> "IntegrityError", rows |-> rows]
        ELSE IF k = 0 THEN [exc |-> "", rows |-> Append(rows, excluded)]
        ELSE [exc |-> "", rows |-> [rows EXCEPT ![k] = ConflictUpdate(@, excluded)]]

\* save_card_index: reading an attribute no call has assigned raises AttributeError.
SaveCardIndex(rows, id_text, data_text, l, s, c, r, fault) ==
    IF l = Unset \/ id_text = UnsetText THEN [exc |-> "AttributeError", rows |-> rows]
    ELSE IF fault THEN [exc |-> "OperationalError", rows |-> rows]
    ELSE UpsertCardIndex(rows, id_text, data_text, l, s, c, r)

\* The cards the modelled site serves and what their pages carry: the CARD ID and
\* DATA ID comments (absent, numeric, not numeric) and the rarity.
CardCodes == {"1", "2"}
CardPages ==
    [card_id : {NoneText, <<"1", "2">>, <<"1", "3">>, <<"x">>},
     data_id : {NoneText, <<"7">>, <<"8">>},
     rarity  : {None, "Rare", "Common"}]

LimitlessInit ==
    /\ runs = <<>>
    /\ MainIdle
    /\ ParseIdle
    /\ LimitlessIdle
    /\ SimpleIdle
    /\ CallsIdle
    /\ CardrushIdle
    /\ CrawlIdle
    /\ fetcher = "LimitlessFetcher"
    /\ clock = 1

\* fetch_html(lang, set_code, card_code): the three attributes are assigned before
\* the request is sent, whether or not it then raises.
LimitlessFetch ==
    /\ fetcher = "LimitlessFetcher"
    /\ calls < MaxSaves
    /\ lang' = "en"
    /\ set_code' = "SV1"
    /\ card_code' \in CardCodes
    /\ UNCHANGED <<cards_index, card_id, data_id, rarity>>
    /\ UNCHANGED <<cardrushStore, product_group, clock, crawlVars, simpleStore, callVars>>
    /\ UNCHANGED parseVars
    /\ UNCHANGED mainVars
    /\ UNCHANGED runs

\* extract_rarity(html)
LimitlessExtract ==
    /\ fetcher = "LimitlessFetcher"
    /\ calls < MaxSaves
    /\ \E page \in CardPages :
         /\ card_id' = page.card_id
         /\ data_id' = page.data_id
         /\ rarity' = page.rarity
    /\ UNCHANGED <<cards_index, lang, set_code, card_code>>
    /\ UNCHANGED <<cardrushStore, product_group, clock, crawlVars, simpleStore, callVars>>
    /\ UNCHANGED parseVars
    /\ UNCHANGED mainVars
    /\ UNCHANGED runs

\* save_card_index()
LimitlessSave ==
    /\ fetcher = "LimitlessFetcher"
    /\ calls < MaxSaves
    /\ \E fault \in BOOLEAN :
         LET saved == SaveCardIndex(cards_index, card_id, data_id, lang, set_code,
                                    card_code, rarity, fault)
         IN  /\ cards_index' = saved.rows
             /\ lastSave' = [exc |-> saved.exc,
                             written |-> IF saved.exc = "" THEN 1 ELSE 0,
                             size |-> 1, undone |-> 0]
    /\ calls' = calls + 1
    /\ UNCHANGED <<lang, set_code, card_code, card_id, data_id, rarity>>
    /\ UNCHANGED <<cardrushStore, product_group, clock, crawlVars, simpleStore,
                   fetcher, pending, call_items>>
    /\ UNCHANGED parseVars
    /\ UNCHANGED mainVars
    /\ UNCHANGED runs

LimitlessNext == LimitlessFetch \/ LimitlessExtract \/ LimitlessSave

SpecLimitless == LimitlessInit /\ [][LimitlessNext]_vars

(***************************************************************************)
(* full_process_limitless.main                                             *)
(***************************************************************************)
\* What load_series_records can return: up to MaxSegments rows of series_limitless
\* in series_code order, each of a size 1..MaxSize.
SeriesRecord(k, size) == [series_code |-> "SV" \o ToString(k), lang |-> "en", size |-> size]
SeriesRecordLists ==
    UNION {{[k \in 1..n |-> SeriesRecord(k, sizes[k])] : sizes \in [1..n -> 1..MaxSize]} :
             n \in 0..MaxSegments}

\* What the card pages carry while main runs.
MainCardPages ==
    {page \in CardPages :
        page.data_id = <<"7">> /\ page.rarity = "Rare" /\ page.card_id # <<"1", "3">>}

\* html before fetch_html has returned it.
NoPage == [card_id |-> UnsetText, data_id |-> UnsetText, rarity |-> Unset]
Attempt(row, card, fetched) ==
    [row |-> row, card |-> card, fetched |-> fetched, page |-> NoPage,
     extracted |-> FALSE, saved |-> FALSE]

\* AfterFetch without the continue: a fetch that raised goes on to the save.
AfterFetchNoContinue(fetched) == IF fetched THEN "extract" ELSE "save"

\* Lines 33-42: where main goes after fetch_html returned or raised (continue).
AfterFetch(fetched) == IF fetched THEN "extract" ELSE "fetch"
MarkLast(log, field) ==
    [log EXCEPT ![Len(log)] = IF field = "extracted" THEN [@ EXCEPT !.extracted = TRUE]
                              ELSE [@ EXCEPT !.saved = TRUE]]

\* Lines 6-9 and 23: the fetcher is constructed and the rows are loaded.
FullProcessInit ==
    /\ runs = <<>>
    /\ ParseIdle
    /\ LimitlessIdle
    /\ SimpleIdle
    /\ CallsIdle
    /\ CardrushIdle
    /\ CrawlIdle
    /\ fetcher = "LimitlessFetcher"
    /\ clock = 1
    /\ series_urls \in SeriesRecordLists
    /\ series_index = 1
    /\ card_index = 1
    /\ main_pc = "fetch"
    /\ attempts = <<>>

\* Lines 32-42: fetch_html for the next card_code; an exception of the call (the
\* request, or writing the page under html_dir) is caught and the loop continues.
FullProcessFetch ==
    /\ main_pc = "fetch"
    /\ series_index <= Len(series_urls)
    /\ card_index <= series_urls[series_index].size
    /\ lang' = series_urls[series_index].lang
    /\ set_code' = series_urls[series_index].series_code
    /\ card_code' = ToString(card_index)
    /\ \E fetched \in BOOLEAN :
         /\ attempts' = Append(attempts, Attempt(series_index, card_index, fetched))
         /\ main_pc' = AfterFetch(fetched)
         /\ card_index' = IF main_pc' = "fetch" THEN card_index + 1 ELSE card_index
    /\ UNCHANGED <<series_urls, series_index>>
    /\ UNCHANGED <<cards_index, card_id, data_id, rarity>>
    /\ UNCHANGED <<cardrushStore, product_group, clock, crawlVars, simpleStore, callVars,
                   parseVars>>
    /\ UNCHANGED runs

\* Line 44: extract_rarity(html).
FullProcessExtract ==
    /\ main_pc = "extract"
    /\ \E page \in MainCardPages :
         /\ card_id' = page.card_id
         /\ data_id' = page.data_id
         /\ rarity' = page.rarity
         /\ attempts' = [MarkLast(attempts, "extracted") EXCEPT ![Len(attempts)].page = page]
    /\ main_pc' = "save"
    /\ UNCHANGED <<series_urls, series_index, card_index>>
    /\ UNCHANGED <<cards_index, lang, set_code, card_code>>
    /\ UNCHANGED <<cardrushStore, product_group, clock, crawlVars, simpleStore, callVars,
                   parseVars>>
    /\ UNCHANGED runs

\* Line 46: save_card_index(), outside the try: its exception leaves main.
FullProcessSave ==
    /\ main_pc = "save"
    /\ \E fault \in BOOLEAN :
         LET saved == SaveCardIndex(cards_index, card_id, data_id, lang, set_code,
                                    card_code, rarity, fault)
         IN  /\ cards_index' = saved.rows
             /\ lastSave' = [exc |-> saved.exc,
                             written |-> IF saved.exc = "" THEN 1 ELSE 0,
                             size |-> 1, undone |-> 0]
             /\ IF saved.exc = ""
                THEN /\ main_pc' = "fetch"
                     /\ card_index' = card_index + 1
                     /\ attempts' = MarkLast(attempts, "saved")
                ELSE /\ main_pc' = "raised"
                     /\ UNCHANGED <<card_index, attempts>>
    /\ calls' = calls + 1
    /\ UNCHANGED <<series_urls, series_index>>
    /\ UNCHANGED <<lang, set_code, card_code, card_id, data_id, rarity>>
    /\ UNCHANGED <<cardrushStore, product_group, clock, crawlVars, simpleStore,
                   fetcher, pending, call_items, parseVars>>
    /\ UNCHANGED runs

\* Lines 25 and 32: range(1, size + 1) is exhausted, on to the next row.
FullProcessNextSeries ==
    /\ main_pc = "fetch"
    /\ series_index <= Len(series_urls)
    /\ card_index > series_urls[series_index].size
    /\ series_index' = series_index + 1
    /\ card_index' = 1
    /\ UNCHANGED <<series_urls, main_pc, attempts>>
    /\ UNCHANGED <<cardrushStore, product_group, clock, crawlVars, simpleStore, callVars,
                   limitlessVars, parseVars>>
    /\ UNCHANGED runs

\* The rows are exhausted: main returns.
FullProcessDone ==
    /\ main_pc = "fetch"
    /\ series_index > Len(series_urls)
    /\ main_pc' = "done"
    /\ UNCHANGED <<series_urls, series_index, card_index, attempts>>
    /\ UNCHANGED <<cardrushStore, product_group, clock, crawlVars, simpleStore, callVars,
                   limitlessVars, parseVars>>
    /\ UNCHANGED runs

FullProcessNext ==
    FullProcessFetch \/ FullProcessExtract \/ FullProcessSave \/ FullProcessNextSeries
        \/ FullProcessDone

SpecFullProcess == FullProcessInit /\ [][FullProcessNext]_vars

(***************************************************************************)
(* _parse_price called on its own (a static method of both fetchers)       *)
(***************************************************************************)
\* The price texts tried: None, every text of at most MaxLen characters out of a
\* digit, a zero, a comma and a currency sign, and the documented example.
PriceChars == {"7", "0", ",", "円"}
PriceTexts ==
    {NoneText, <<"7", "9", ",", "8", "0", "0", "円">>}
    \cup UNION {[1..n -> PriceChars] : n \in 0..MaxLen}

ParsePriceInit ==
    /\ runs = <<>>
    /\ MainIdle
    /\ LimitlessIdle
    /\ SimpleIdle
    /\ CallsIdle
    /\ CardrushIdle
    /\ CrawlIdle
    /\ fetcher \in {"SimpleFetcher", "CardrushFetcher"}
    /\ clock = 1
    /\ price_str \in PriceTexts
    /\ parsed = NotCalled

ParsePriceCall ==
    /\ parsed = NotCalled
    /\ parsed' = ParsePrice(price_str)
    /\ UNCHANGED <<price_str, cardrushStore, product_group, clock, crawlVars, simpleStore,
                   callVars, limitlessVars>>
    /\ UNCHANGED mainVars
    /\ UNCHANGED runs

ParsePriceNext == ParsePriceCall

SpecParsePrice == ParsePriceInit /\ [][ParsePriceNext]_vars

(***************************************************************************)
(* Claims about crawl_series, checked under SpecCrawl.                     *)
(***************************************************************************)
Ended == pc \in {"returned", "raised"}
FetchedOk(k) == fetchLog[k].exc = "" /\ fetchLog[k].page # <<>>
FirstOf(k) == <<fetchLog[k].page[1].product_id, fetchLog[k].page[1].product_url>>
Persisted(index) == \E s \in DOMAIN saveLog : saveLog[s].page_index = index

\* C1: a page k > 1 whose first record has the product_id and product_url of page
\* 1's first record ends the traversal at k for the loop reason: page k is never
\* handed to save_products_to_sqlite and no page k+1 is fetched.
C1_LoopStop ==
    \A k \in DOMAIN fetchLog :
        (k > 1 /\ FetchedOk(k) /\ FirstOf(k) = FirstOf(1))
            => /\ pc = "returned" /\ stop = "loop"
               /\ Len(fetchLog) = k
               /\ ~Persisted(fetchLog[k].page_index)

C1_Witness ==
    /\ stop = "loop" /\ Len(fetchLog) = 3 /\ Len(saveLog) = 2
    /\ fetchLog[3].page # fetchLog[1].page

\* C2: a fetched page with zero records ends the traversal at its index, whatever
\* max_pages is: nothing is persisted for that index and no later index is fetched.
C2_EmptyStop ==
    \A k \in DOMAIN fetchLog :
        (fetchLog[k].exc = "" /\ fetchLog[k].page = <<>>)
            => /\ pc = "returned" /\ stop = "empty"
               /\ Len(fetchLog) = k
               /\ ~Persisted(fetchLog[k].page_index)

C2_Witness ==
    /\ stop = "empty" /\ Len(fetchLog) = 2 /\ max_pages > 2 /\ Len(saveLog) = 1

\* C3: a run makes at most max_pages fetches; and when every page 1..max_pages is
\* non-empty and no page after the first has page 1's fingerprint, the run makes
\* exactly max_pages fetches, persists each of these pages once, and then stops.
C3_MaxPages ==
    /\ Len(fetchLog) <= max_pages
    /\ (Ended /\ \A k \in DOMAIN fetchLog :
                    FetchedOk(k) /\ (k > 1 => FirstOf(k) # FirstOf(1)))
         => /\ Len(fetchLog) = max_pages
            /\ Len(saveLog) = max_pages
            /\ \A k \in DOMAIN saveLog :
                  saveLog[k].page_index = k /\ saveLog[k].exc = ""
            /\ stop = "max"

\* C4: a fetch that raises a transport error, or a persist that raises a storage
\* error, is caught at its index: crawl_series does not abort and goes on to the
\* next index.
StorageErrors == {"IntegrityError", "OperationalError"}
C4_SkipAndContinue ==
    /\ \A k \in DOMAIN fetchLog :
          fetchLog[k].exc = "RequestException"
              => /\ pc # "raised"
                 /\ (Ended /\ k < max_pages => Len(fetchLog) > k)
    /\ \A s \in DOMAIN saveLog :
          saveLog[s].exc \in StorageErrors
              => /\ pc # "raised"
                 /\ (Ended /\ saveLog[s].page_index < max_pages
                        => Len(fetchLog) > saveLog[s].page_index)

\* The scenario of C5 as far as the run has got: the store was empty (CrawlInit),
\* pages 1 and 2 held 3 records each, all of them complete(_), with
\* 6 distinct product ids, and page 3 came back starting with the
\* product_id and product_url of page 1's first record.
ScenarioIds == {fetchLog[k].page[n].product_id : k \in 1..2, n \in 1..3}
Scenario(complete(_)) ==
    /\ Len(fetchLog) >= 3
    /\ \A k \in 1..3 : FetchedOk(k)
    /\ \A k \in 1..2 :
          /\ Len(fetchLog[k].page) = 3
          /\ \A n \in 1..3 : complete(fetchLog[k].page[n])
    /\ Cardinality(ScenarioIds) = 6
    /\ FirstOf(3) = FirstOf(1)
ScenarioEnd ==
    /\ pc = "returned" /\ stop = "loop"
    /\ Len(fetchLog) = 3
    /\ Len(products_cardrush) = 6
    /\ Len(prices_cardrush) = 6

\* product_id, url and name present and a price that parses to a number.
HasIdUrlNamePrice(it) ==
    /\ it.product_id \notin {None, ""}
    /\ it.product_url \notin {None, ""}
    /\ it.name \notin {None, ""}
    /\ ParsePrice(it.price).tag = "float"
\* ... and name_full and model_number present too.
HasAllRequired(it) ==
    /\ HasIdUrlNamePrice(it)
    /\ it.name_full \notin {None, ""}
    /\ it.model_number \notin {None, ""}

SaveStep == pending /\ ~pending'
Present(x) == x \notin {None, ""}
HasIdUrlName(it) == Present(it.product_id) /\ Present(it.product_url) /\ Present(it.name)
Positions(batch, pid) ==
    {i \in 1..Len(batch) : batch[i].product_id = pid /\ HasIdUrlName(batch[i])}
LastOf(batch, pid) ==
    batch[CHOOSE i \in Positions(batch, pid) : \A j \in Positions(batch, pid) : j <= i]
SavedIds(batch) == {batch[i].product_id : i \in {j \in 1..Len(batch) : HasIdUrlName(batch[j])}}

OneRowPerKey(rows, key(_)) ==
    \A i, j \in 1..Len(rows) : key(rows[i]) = key(rows[j]) => i = j
ProductKey(row) == row.product_id
DayKey(row) == <<row.product_id, row.captured_date>>

\* C6: products holds one row per product_id and price_history one row per
\* (product_id, UTC day); and after every SimpleFetcher save that returns, each
\* product_id saved by it has its products row carrying the url and name, and its
\* price_history row of that day carrying the price, stock_status and captured_at,
\* of the last record of that id in the call: the values of the latest save.
C6_LatestSaveOfDay ==
    [][/\ OneRowPerKey(products', ProductKey)
       /\ OneRowPerKey(price_history', DayKey)
       /\ (SaveStep /\ lastSave'.exc = "")
            => \A pid \in SavedIds(call_items) :
                 LET last == LastOf(call_items, pid)
                 IN  /\ \E i \in 1..Len(products') :
                           /\ products'[i].product_id = pid
                           /\ products'[i].url = last.product_url
                           /\ products'[i].name = last.name
                           /\ products'[i].updated_at = clock
                     /\ \E h \in 1..Len(price_history') :
                           /\ price_history'[h].product_id = pid
                           /\ price_history'[h].captured_date = DateOf(clock)
                           /\ price_history'[h].captured_at = clock
                           /\ price_history'[h].price = ParsePrice(last.price)
                           /\ price_history'[h].stock_status = last.stock]_vars

\* Product "1" was saved, then saved again later on the same day with another name,
\* price and stock status.
C6_Witness ==
    /\ lastSave.exc = "" /\ calls = 2
    /\ \E i \in 1..Len(products), h \in 1..Len(price_history) :
          /\ products[i].product_id = "1"
          /\ products[i].name = "card (new)"
          /\ products[i].created_at < products[i].updated_at
          /\ DateOf(products[i].created_at) = DateOf(products[i].updated_at)
          /\ price_history[h].product_id = "1"
          /\ price_history[h].captured_at = products[i].updated_at
          /\ price_history[h].price = Float(12)
          /\ price_history[h].stock_status = None

\* C7: prices_cardrush never holds two rows with the same (product_id, observed_at),
\* and no save fails on the key of prices_cardrush.
ObservationKey(row) == <<row.product_id, row.observed_at>>
C7_LastWriterWins ==
    /\ OneRowPerKey(prices_cardrush, ObservationKey)
    /\ lastSave.exc # "IntegrityError"

\* C8: a save_card_index call never removes a row, changes the rarity (data_id) of
\* a row only to the non-null rarity (data_id) it was called with for that row's
\* card_id, and so leaves a stored non-null rarity (data_id) as it is when the
\* incoming one is null.
C8_NullsDoNotClobber ==
    [][(fetcher = "LimitlessFetcher" /\ calls' = calls + 1)
         => \A i \in 1..Len(cards_index) :
              LET old == cards_index[i]
                  same == IntegerAffinity(card_id) = IntVal(old.card_id)
              IN  \E j \in 1..Len(cards_index') :
                    LET new == cards_index'[j]
                    IN  /\ new.card_id = old.card_id
                        /\ (old.rarity # None /\ rarity = None) => new.rarity = old.rarity
                        /\ new.rarity # old.rarity
                             => same /\ rarity # None /\ new.rarity = rarity
                        /\ (old.data_id # NoneVal /\ data_id = NoneText)
                             => new.data_id = old.data_id
                        /\ new.data_id # old.data_id
                             => /\ same /\ data_id # NoneText
                                /\ new.data_id = IntegerAffinity(data_id)]_vars

\* Card 12 was saved with rarity "Rare" and data id 7, then saved again with neither.
C8_Witness ==
    /\ fetcher = "LimitlessFetcher" /\ calls = 2 /\ lastSave.exc = ""
    /\ card_id = <<"1", "2">> /\ rarity = None /\ data_id = NoneText
    /\ \E i \in 1..Len(cards_index) :
          /\ cards_index[i].card_id = 12
          /\ cards_index[i].rarity = "Rare"
          /\ cards_index[i].data_id = IntVal(7)

\* The records C9 speaks of: product_id, url or name missing or empty, and for
\* CardrushFetcher also a price text that parses to null.
Incomplete(it) ==
    \/ ~HasIdUrlName(it)
    \/ fetcher = "CardrushFetcher" /\ ParsePrice(it.price) = NoneVal
Complete(batch) == {i \in 1..Len(batch) : ~Incomplete(batch[i])}
\* ... and the records a save has no other reason to leave out.
Storable(batch) ==
    {i \in Complete(batch) :
        fetcher = "CardrushFetcher"
            => Present(batch[i].name_full) /\ Present(batch[i].model_number)}
OnlyFrom(rows_after, rows_before, batch) ==
    \A k \in 1..Len(rows_after) :
        \/ \E b \in 1..Len(rows_before) : rows_before[b] = rows_after[k]
        \/ \E i \in Complete(batch) : batch[i].product_id = rows_after[k].product_id
HoldsAll(rows_after, batch) ==
    \A i \in Storable(batch) :
        \E k \in 1..Len(rows_after) : rows_after[k].product_id = batch[i].product_id

\* C9: in a save by either fetcher, the incomplete records are not counted, no row
\* of the current-state or history table is added or changed on their behalf, and
\* they do not keep the other records from being processed: a price text is only
\* ever refused on behalf of a complete record, and when the save returns every
\* storable record of the batch has its rows.
C9_ValidationSkip ==
    [][SaveStep
         => /\ lastSave'.written <= Cardinality(Complete(call_items))
            /\ OnlyFrom(products', products, call_items)
            /\ OnlyFrom(price_history', price_history, call_items)
            /\ OnlyFrom(products_cardrush', products_cardrush, call_items)
            /\ OnlyFrom(prices_cardrush', prices_cardrush, call_items)
            /\ lastSave'.exc = "ValueError"
                 => \E i \in Complete(call_items) :
                       ParsePrice(call_items[i].price) = ValueError
            /\ (lastSave'.exc = "" /\ fetcher = "SimpleFetcher")
                 => /\ HoldsAll(products', call_items)
                    /\ HoldsAll(price_history', call_items)
            /\ (lastSave'.exc = "" /\ fetcher = "CardrushFetcher")
                 => /\ HoldsAll(products_cardrush', call_items)
                    /\ HoldsAll(prices_cardrush', call_items)]_vars

\* C10: SimpleFetcher never writes a price_history row with a null price, and a
\* save counts only records that carry product_id, url, name and a price.
C10_NullPriceRejected ==
    [][SaveStep
         => /\ \A h \in 1..Len(price_history') : price_history'[h].price # NoneVal
            /\ lastSave'.written
                 <= Cardinality({i \in 1..Len(call_items) :
                                    /\ HasIdUrlName(call_items[i])
                                    /\ ParsePrice(call_items[i].price) # NoneVal})]_vars

(***************************************************************************)
(* Claims about _parse_price, checked under SpecParsePrice.                *)
(***************************************************************************)
HasDigit(text) == \E k \in 1..Len(text) : IsDigit(text[k])

\* C11: _parse_price never raises; None and the empty string give None; a text
\* with a digit gives a number, "79,800円" giving 79800; and a text without a
\* digit, one holding a comma included, gives None.
C11_ParsePriceTotal ==
    parsed # NotCalled
        => /\ parsed # ValueError
           /\ price_str \in {NoneText, <<>>} => parsed = NoneVal
           /\ HasDigit(price_str) => parsed.tag = "float"
           /\ price_str = <<"7", "9", ",", "8", "0", "0", "円">> => parsed = Float(79800)
           /\ ~HasDigit(price_str) => parsed = NoneVal

(***************************************************************************)
(* Further claims about the save calls, checked under SpecSave and         *)
(* SpecCardrush.                                                           *)
(***************************************************************************)
\* C12: a save by either fetcher that raises leaves the current-state and the
\* history table exactly as they were before the call; a save that returns has
\* written every record it accepts: all of them are counted and have their rows.
C12_BatchAtomicity ==
    [][SaveStep
         => /\ lastSave'.exc # ""
                 => /\ products' = products
                    /\ price_history' = price_history
                    /\ products_cardrush' = products_cardrush
                    /\ prices_cardrush' = prices_cardrush
            /\ lastSave'.exc = ""
                 => /\ lastSave'.written = Cardinality(Storable(call_items))
                    /\ fetcher = "SimpleFetcher"
                         => /\ HoldsAll(products', call_items)
                            /\ HoldsAll(price_history', call_items)
                    /\ fetcher = "CardrushFetcher"
                         => /\ HoldsAll(products_cardrush', call_items)
                            /\ HoldsAll(prices_cardrush', call_items)]_vars

\* A storage error struck after an earlier record of the batch had been written.
C12_Witness ==
    /\ lastSave.exc \in StorageErrors
    /\ lastSave.undone >= 1
    /\ calls = 1
    /\ products = <<>> /\ price_history = <<>>
    /\ products_cardrush = <<>> /\ prices_cardrush = <<>>

\* C14: when crawl_series has ended, what its caller received tells the reason apart
\* from every other reason: a run that ended at max_pages does not hand back what a
\* run that ended on an empty page or on a loop hands back, and a setup error
\* reaches the caller as an exception.
StopReasons == {"empty", "loop", "max"}
C14_OutcomesDistinct ==
    /\ pc = "returned"
         => /\ stop \in StopReasons
            /\ result = CrawlSeriesResult(stop)
            /\ \A other \in StopReasons \ {stop} : result # CrawlSeriesResult(other)
    /\ pc = "raised" => result = NoResult

\* C15: whenever the HTTP request of a fetch_html call succeeded, the call returned
\* the markup the site sent, whether or not the raw payload could be written.
C15_ArchiveBestEffort ==
    \A k \in DOMAIN fetchLog :
        fetchLog[k].status # "transport"
            => fetchLog[k].exc = "" /\ fetchLog[k].page = ParseProducts(fetchLog[k].sent)

\* C13: download_cardrush.main never ends with an exception, and when it has ended
\* every row of series_urls has been handed to crawl_series, once and in order,
\* however the crawls of the earlier rows ended.
C13_SegmentIsolation ==
    /\ main_pc # "raised"
    /\ main_pc = "done" => attempts = [k \in 1..Len(series_urls) |-> k]

\* C16: a save made at time clock leaves every history row of another bucket where
\* and as it was, and the rows it adds or changes are rows of its own bucket: the
\* UTC day of clock in price_history, the timestamp clock in prices_cardrush.
KeepsOthers(rows_after, rows_before, InBucket(_)) ==
    /\ Len(rows_after) >= Len(rows_before)
    /\ \A h \in 1..Len(rows_before) :
          ~InBucket(rows_before[h]) => rows_after[h] = rows_before[h]
    /\ \A h \in 1..Len(rows_after) :
          (h > Len(rows_before) \/ rows_after[h] # rows_before[h]) => InBucket(rows_after[h])
C16_HistoryImmutable ==
    [][SaveStep
         => /\ KeepsOthers(price_history', price_history,
                           LAMBDA row : row.captured_date = DateOf(clock))
            /\ KeepsOthers(prices_cardrush', prices_cardrush,
                           LAMBDA row : row.observed_at = clock)]_vars

\* Product "1" was saved on one day at 80 and on a later day at 12: both rows stand.
C16_Witness ==
    /\ calls = 2 /\ lastSave.exc = ""
    /\ \E a, b \in 1..Len(price_history) :
          /\ price_history[a].product_id = "1" /\ price_history[b].product_id = "1"
          /\ price_history[a].captured_date < price_history[b].captured_date
          /\ price_history[a].price = Float(80)
          /\ price_history[b].price = Float(12)

\* C17: each current-state table holds one row per product_id; a save removes no
\* row and changes no created_at, a row it adds is created at the time of the save,
\* and when the save returns, the row of every product_id it stored carries that
\* time as updated_at and the columns of the last stored record of that id, while
\* every other row is as before.
LastStored(batch, pid) ==
    LET at == {i \in Storable(batch) : batch[i].product_id = pid}
    IN  batch[CHOOSE i \in at : \A j \in at : j <= i]
CarriesSimple(row, it) == row.url = it.product_url /\ row.name = it.name
CarriesCardrush(row, it) ==
    /\ row.product_group = product_group
    /\ row.model_number = it.model_number
    /\ row.set_size = it.set_size
    /\ row.name = it.name
    /\ row.name_full = it.name_full
    /\ row.condition = it.condition
    /\ row.model_code = it.model_code
    /\ Float(row.price_yen) = ParsePrice(it.price)
    /\ row.url = CardrushUrl(it)
Lifecycle(rows_after, rows_before, batch, returned, Carries(_, _)) ==
    /\ OneRowPerKey(rows_after, ProductKey)
    /\ Len(rows_after) >= Len(rows_before)
    /\ \A i \in 1..Len(rows_before) :
          /\ rows_after[i].product_id = rows_before[i].product_id
          /\ rows_after[i].created_at = rows_before[i].created_at
    /\ \A i \in 1..Len(rows_after) :
          /\ i > Len(rows_before) => rows_after[i].created_at = clock
          /\ returned
               => IF \E j \in Storable(batch) : batch[j].product_id = rows_after[i].product_id
                  THEN /\ rows_after[i].updated_at = clock
                       /\ Carries(rows_after[i], LastStored(batch, rows_after[i].product_id))
                  ELSE i <= Len(rows_before) /\ rows_after[i] = rows_before[i]
C17_RowLifecycle ==
    [][SaveStep
         => /\ Lifecycle(products', products, call_items, lastSave'.exc = "",
                         CarriesSimple)
            /\ Lifecycle(products_cardrush', products_cardrush, call_items,
                         lastSave'.exc = "", CarriesCardrush)]_vars

\* Product "1" was stored by one CardrushFetcher save and again by a later one, in
\* another state of price and condition.
C17_Witness ==
    /\ fetcher = "CardrushFetcher" /\ calls = 2 /\ lastSave.exc = ""
    /\ \E i \in 1..Len(products_cardrush) :
          /\ products_cardrush[i].product_id = "1"
          /\ products_cardrush[i].created_at < products_cardrush[i].updated_at
          /\ products_cardrush[i].price_yen = 12
          /\ products_cardrush[i].condition = "A"

\* What acceptance of record it by a CardrushFetcher save at time clock leaves behind.
Priced(it) == ParsePrice(it.price) \notin {NoneVal, ValueError}
AcceptedInto(rows_after, prices_after, it) ==
    /\ \E k \in 1..Len(rows_after) :
          /\ rows_after[k].product_id = it.product_id
          /\ rows_after[k].updated_at = clock
    /\ \E h \in 1..Len(prices_after) :
          /\ prices_after[h].product_id = it.product_id
          /\ prices_after[h].observed_at = clock
          /\ Float(prices_after[h].price_yen) = ParsePrice(it.price)
AllAccepted(required, counted) ==
    /\ counted = Cardinality(required)
    /\ \A i \in required :
          AcceptedInto(products_cardrush', prices_cardrush', call_items[i])

C18_NoIdNoRow ==
    [][(main_pc = "save" /\ main_pc' # "save" /\ card_id = NoneText)
         => cards_index' = cards_index]_vars

\* C19: main attempts the cards of every row in order, each once, and when it has
\* ended it has attempted card_code 1..size of every row; a card whose fetch raised
\* is neither extracted nor saved.
RECURSIVE CardsUpTo(_)
CardsUpTo(k) ==
    IF k = 0 THEN <<>>
    ELSE CardsUpTo(k - 1) \o [c \in 1..series_urls[k].size |-> <<k, c>>]
C19_SkipAndContinue ==
    LET want == CardsUpTo(Len(series_urls))
    IN  /\ Len(attempts) <= Len(want)
        /\ \A k \in 1..Len(attempts) :
              /\ <<attempts[k].row, attempts[k].card>> = want[k]
              /\ ~attempts[k].fetched => ~attempts[k].extracted /\ ~attempts[k].saved
        /\ main_pc \in {"done", "raised"} => Len(attempts) = Len(want)

\* C22: every save_card_index call of full_process_limitless.main is made for the
\* card whose fetch returned last, after that page was extracted, with lang,
\* set_code and card_code of that card and card_id, data_id and rarity of that
\* page on the fetcher; and when the call returns, cards_index holds that card's
\* lang, set_code and card_code and the page's non-null values in one row.
C22_SameCardIndex ==
    [][(main_pc = "save" /\ main_pc' # "save")
         => LET last == attempts[Len(attempts)]
                row == series_urls[last.row]
            IN  /\ last.fetched /\ last.extracted
                /\ last.row = series_index /\ last.card = card_index
                /\ lang = row.lang
                /\ set_code = row.series_code
                /\ card_code = ToString(last.card)
                /\ card_id = last.page.card_id
                /\ data_id = last.page.data_id
                /\ rarity = last.page.rarity
                /\ lastSave'.exc = ""
                     => \E k \in 1..Len(cards_index') :
                           /\ cards_index'[k].lang = row.lang
                           /\ cards_index'[k].set_code = row.series_code
                           /\ cards_index'[k].card_code = ToString(last.card)
                           /\ last.page.rarity # None
                                => cards_index'[k].rarity = last.page.rarity
                           /\ last.page.data_id # NoneText
                                => cards_index'[k].data_id
                                      = IntegerAffinity(last.page.data_id)
                           /\ last.page.card_id # NoneText
                                => IntVal(cards_index'[k].card_id)
                                      = IntegerAffinity(last.page.card_id)]_vars

\* The fetch of card 1 raised, card 2 was fetched, extracted and saved: the row of
\* card 2 is the only one.
C22_Witness ==
    /\ main_pc \in {"fetch", "done"}
    /\ Len(attempts) >= 2
    /\ ~attempts[1].fetched
    /\ attempts[2].saved /\ attempts[2].card = 2
    /\ attempts[2].page.card_id = <<"1", "2">>
    /\ Len(cards_index) = 1
    /\ cards_index[1].card_code = "2"
    /\ cards_index[1].card_id = 12

\* C21: when two crawl_series calls for different segments run interleaved on one
\* fetcher, every products_cardrush row that a save of either call writes carries
\* the product_group of the address that call's page was fetched from.
C21_SegmentsIndependent ==
    [][\A r \in RunIds :
         (runs[r].pc = "save" /\ runs'[r].pc # "save")
            => \A k \in 1..Len(products_cardrush') :
                  products_cardrush'[k].updated_at = clock
                     => products_cardrush'[k].product_group = runs[r].page_group]_vars

====
